---------------------------- MODULE Spec2Model ----------------------------
(***************************************************************************)
(* Golden-master regression engine of inovacc/omni (tools/golden).         *)
(*                                                                         *)
(* The specifications of this module:                                      *)
(*   SpecNorm  - the normalization pipeline as a pure function             *)
(*               (golden/normalize.py);                                    *)
(*   SpecRun   - run_all / run_test_case: the worker pool, the fixture     *)
(*               temp files and the subprocess outcomes (golden/runner.py);*)
(*   SpecStore - record_golden / compare_results / the manifest on the     *)
(*               golden directory (golden/recorder.py, comparator.py,      *)
(*               manifest.py).                                             *)
(*   SpecManifest - record batches and the Manifest methods upsert_entry   *)
(*               and remove_entry on one manifest file (golden/manifest.py);*)
(*   SpecMethods - upsert_entry and remove_entry calls on one Manifest     *)
(*               object (golden/manifest.py);                              *)
(*   SpecRecord - one record_golden call, write by write                   *)
(*               (golden/recorder.py);                                     *)
(*   SpecReport - print_report as a pure function (golden/report.py);      *)
(*   SpecCli   - one run of main(): discovery, incremental filter, run_all,*)
(*               then record or compare and report (golden/cli.py,         *)
(*               incremental.py).                                          *)
(*                                                                         *)
(* A text is a sequence of characters, each character a one-token string.  *)
(***************************************************************************)
EXTENDS Integers, Sequences, FiniteSets, TLC

VARIABLES
    normIn,      \* SpecNorm: the arguments (text, normalizer_names) of normalize
    normOut,     \* SpecNorm: results of normalize applied once, then to its own result
    cases,       \* SpecRun: run_all's test_cases argument (list of TestCase)
    workers,     \* SpecRun: run_all's workers argument
    startable,   \* SpecRun: whether the OS can start the binary
    hangs,       \* SpecRun: the test cases whose subprocess outlives the timeout
    tempDir,     \* SpecRun: the directory made by mkdtemp: FALSE, or TRUE while it exists
    tempFiles,   \* SpecRun: path -> content of the files in tempDir (NoFile if none)
    task,        \* SpecRun: per test case, the state of its run_test_case call
    results,     \* SpecRun: run_all's results list
    collected,   \* SpecRun: indices of the tasks whose result run_all has taken
    runPc,       \* SpecRun: position of run_all
    golden,      \* SpecStore: path -> content of the files of the golden directory
    op,          \* SpecStore: the operation of the running CLI process: its
                 \* arguments and what it returned
    report,      \* SpecReport: the argument of print_report and what it returned
    cli,         \* SpecCli: the arguments, the environment and the position of main()
    call,        \* SpecMethods: the last method call on a Manifest object: the
                 \* object before, the argument and the object after
    rec          \* SpecRecord: the arguments, the local variables and the position
                 \* of a record_golden call, and the file writes it has made

normVars == <<normIn, normOut>>
runVars == <<cases, workers, startable, hangs, tempDir, tempFiles, task, results, collected, runPc>>
storeVars == <<golden, op>>
cliVars == <<report, cli>>
apiVars == <<call, rec>>
vars == <<normIn, normOut, cases, workers, startable, hangs, tempDir, tempFiles, task,
          results, collected, runPc, golden, op, report, cli, call, rec>>

-----------------------------------------------------------------------------
(* Characters and texts *)

CR == "CR"
LF == "LF"
SP == "SP"
BSL == "BSL"
QUOTE == "QUOTE"

\* \s of the regular expressions and the characters str.rstrip() removes
IsSpace(c) == c \in {CR, LF, SP}

\* the complement class [^\s"'] of the path expressions
IsPathChar(c) == ~IsSpace(c) /\ c # QUOTE

\* [A-Za-z]
IsLetter(c) == c \in {"a", "t", "m", "p", "e", "C", "T", "M", "P", "A", "H", "D", "I", "R"}

\* case folding done by re.IGNORECASE
Lower(c) ==
    CASE c = "T" -> "t"
      [] c = "M" -> "m"
      [] c = "P" -> "p"
      [] c = "C" -> "c"
      [] OTHER -> c

PathToken == <<"<", "P", "A", "T", "H", ">">>
TmpDirToken == <<"<", "T", "M", "P", "D", "I", "R", ">">>

Drop(t, n) == SubSeq(t, n + 1, Len(t))

-----------------------------------------------------------------------------
(* normalize.py *)

RECURSIVE ReplaceCRLF(_)
\* text.replace("\r\n", "\n")
ReplaceCRLF(t) ==
    IF t = <<>> THEN <<>>
    ELSE IF Len(t) >= 2 /\ t[1] = CR /\ t[2] = LF
         THEN <<LF>> \o ReplaceCRLF(Drop(t, 2))
         ELSE <<t[1]>> \o ReplaceCRLF(Tail(t))

RECURSIVE SplitLF(_)
\* text.split("\n"): the list of lines, [""] for the empty text
SplitLF(t) ==
    IF \A i \in 1..Len(t) : t[i] # LF THEN <<t>>
    ELSE LET k == CHOOSE i \in 1..Len(t) :
                      t[i] = LF /\ \A j \in 1..(i - 1) : t[j] # LF
         IN <<SubSeq(t, 1, k - 1)>> \o SplitLF(Drop(t, k))

RECURSIVE RStrip(_)
\* line.rstrip()
RStrip(line) ==
    IF line # <<>> /\ IsSpace(line[Len(line)])
    THEN RStrip(SubSeq(line, 1, Len(line) - 1))
    ELSE line

RECURSIVE JoinLF(_)
\* "\n".join(lines)
JoinLF(lines) ==
    IF Len(lines) = 0 THEN <<>>
    ELSE IF Len(lines) = 1 THEN lines[1]
    ELSE lines[1] \o <<LF>> \o JoinLF(Tail(lines))

StripTrailingWhitespace(t) ==
    JoinLF([i \in 1..Len(SplitLF(t)) |-> RStrip(SplitLF(t)[i])])

\* end (exclusive) of the longest run of [^\s"'] characters starting at i
RunEnd(t, i) ==
    IF \A j \in i..Len(t) : IsPathChar(t[j]) THEN Len(t) + 1
    ELSE CHOOSE j \in i..Len(t) :
             ~IsPathChar(t[j]) /\ \A k \in i..(j - 1) : IsPathChar(t[k])

\* re.match of  [A-Za-z]:\\[^\s"']+|/[^\s"']+(?:/[^\s"']+)+  at position i:
\* the end (exclusive) of the match, 0 if there is none
PathMatchEnd(t, i) ==
    IF /\ i + 3 <= Len(t)
       /\ IsLetter(t[i]) /\ t[i + 1] = ":" /\ t[i + 2] = BSL
       /\ IsPathChar(t[i + 3])
    THEN RunEnd(t, i + 3)
    ELSE IF /\ i + 3 <= Len(t)
            /\ t[i] = "/"
            /\ \E j \in (i + 2)..(RunEnd(t, i + 1) - 2) : t[j] = "/"
         THEN RunEnd(t, i + 1)
         ELSE 0

\* (?:tmp|temp|Temp) under re.IGNORECASE at position i: its length, 0 if none
TmpWordLen(t, i) ==
    IF i + 2 <= Len(t) /\ Lower(t[i]) = "t" /\ Lower(t[i + 1]) = "m" /\ Lower(t[i + 2]) = "p"
    THEN 3
    ELSE IF /\ i + 3 <= Len(t)
            /\ Lower(t[i]) = "t" /\ Lower(t[i + 1]) = "e"
            /\ Lower(t[i + 2]) = "m" /\ Lower(t[i + 3]) = "p"
         THEN 4
         ELSE 0

\* re.match of  (?:[A-Za-z]:\\|/)(?:tmp|temp|Temp)[/\\][^\s"']*  at position i
TmpMatchEnd(t, i) ==
    LET p == IF i + 2 <= Len(t) /\ IsLetter(t[i]) /\ t[i + 1] = ":" /\ t[i + 2] = BSL
             THEN i + 3
             ELSE IF i <= Len(t) /\ t[i] = "/" THEN i + 1 ELSE 0
        w == IF p = 0 THEN 0 ELSE TmpWordLen(t, p)
    IN IF p # 0 /\ w # 0 /\ p + w <= Len(t) /\ t[p + w] \in {"/", BSL}
       THEN RunEnd(t, p + w + 1)
       ELSE 0

RECURSIVE SubPath(_, _)
\* re.sub(<path expression>, "<PATH>", text) from position i on
SubPath(t, i) ==
    IF i > Len(t) THEN <<>>
    ELSE IF PathMatchEnd(t, i) # 0
         THEN PathToken \o SubPath(t, PathMatchEnd(t, i))
         ELSE <<t[i]>> \o SubPath(t, i + 1)

RECURSIVE SubTmp(_, _)
\* re.sub(<temp-dir expression>, "<TMPDIR>", text, flags=re.IGNORECASE) from position i on
SubTmp(t, i) ==
    IF i > Len(t) THEN <<>>
    ELSE IF TmpMatchEnd(t, i) # 0
         THEN TmpDirToken \o SubTmp(t, TmpMatchEnd(t, i))
         ELSE <<t[i]>> \o SubTmp(t, i + 1)

StripPath(t) == SubPath(t, 1)

StripTempDir(t) == SubTmp(t, 1)

\* the keys of the NORMALIZERS dictionary
NORMALIZERS ==
    {"normalize_newlines", "strip_trailing_whitespace", "strip_path", "strip_temp_dir"}

\* NORMALIZERS[name](text)
ApplyNormalizer(name, t) ==
    CASE name = "normalize_newlines" -> ReplaceCRLF(t)
      [] name = "strip_trailing_whitespace" -> StripTrailingWhitespace(t)
      [] name = "strip_path" -> StripPath(t)
      [] name = "strip_temp_dir" -> StripTempDir(t)

RECURSIVE ApplyChain(_, _)
\* the for loop of normalize: unknown names are skipped
ApplyChain(t, names) ==
    IF names = <<>> THEN t
    ELSE ApplyChain(IF names[1] \in NORMALIZERS THEN ApplyNormalizer(names[1], t) ELSE t,
                    Tail(names))

\* normalize without the unconditional first step of line 29
normalize_NamedOnly(t, names) == ApplyChain(t, names)

\* normalize(text, normalizer_names)
normalize(t, names) == ApplyChain(ReplaceCRLF(t), names)

-----------------------------------------------------------------------------
(* SpecNorm: normalize applied to a text, then to its own result *)

MaxFrags == 3
MaxNames == 2

Fragments ==
    { <<CR>>, <<LF>>, <<SP>>, <<"a">>, <<"/">>,
      <<"/", "t", "m", "p", "/">>, <<"C", ":", BSL>> }

NormalizerNames == NORMALIZERS \cup {"future_normalizer"}

RECURSIVE TextsUpTo(_)
TextsUpTo(n) ==
    IF n = 0 THEN {<<>>}
    ELSE LET S == TextsUpTo(n - 1) IN S \cup {s \o f : s \in S, f \in Fragments}

RECURSIVE NameListsUpTo(_)
NameListsUpTo(n) ==
    IF n = 0 THEN {<<>>}
    ELSE LET S == NameListsUpTo(n - 1) IN S \cup {Append(s, m) : s \in S, m \in NormalizerNames}

NormIdle == normIn = [text |-> <<>>, names |-> <<>>] /\ normOut = <<>>

NormInit ==
    /\ normIn \in [text : TextsUpTo(MaxFrags), names : NameListsUpTo(MaxNames)]
    /\ normOut = <<>>

\* normalize called on the text, and then again on what it returned
NormalizeCall ==
    /\ Len(normOut) < 2
    /\ normOut' = Append(normOut,
                         normalize(IF normOut = <<>> THEN normIn.text ELSE normOut[Len(normOut)],
                                   normIn.names))
    /\ UNCHANGED <<normIn, runVars, storeVars, cliVars, apiVars>>

-----------------------------------------------------------------------------
(* types.py, discovery.py: the test cases *)

\* Optional[...] values: None is the empty sequence, a present value a singleton
None == <<>>
Some(x) == <<x>>

\* TestCase.golden_key
golden_key(tc) == tc.category \o "/" \o tc.name

\* TestCase.golden_filename
golden_filename(tc) == tc.name

\* TestCase.golden_subdir
golden_subdir(tc) == tc.category

\* the content of the registry file: two test cases named "cat" in different
\* categories, both with a fixture, and one without fixture
Registry ==
    << [name |-> "cat", category |-> "text", args |-> <<"cat", "{file}">>,
        fixture |-> Some(<<"a", LF>>), normalizations |-> <<>>],
       [name |-> "cat", category |-> "data", args |-> <<"cat", "{file}">>,
        fixture |-> Some(<<"b", LF>>), normalizations |-> <<>>],
       [name |-> "echo", category |-> "text", args |-> <<"echo", "a">>,
        fixture |-> None, normalizations |-> <<"strip_trailing_whitespace">>] >>

Categories == {Registry[i].category : i \in 1..Len(Registry)}

\* pattern in tc.name, for the patterns used here: a whole name, or a string
\* that occurs in no name
NameContains(name, pattern) == name = pattern

\* discover_test_cases(registry, category, pattern): the test cases in
\* registry order that pass the category and the name filter
discover_test_cases(category, pattern) ==
    SelectSeq(Registry,
              LAMBDA tc : /\ (category = None \/ tc.category = category[1])
                          /\ (pattern = None \/ NameContains(tc.name, pattern[1])))

-----------------------------------------------------------------------------
(* runner.py *)

DEFAULT_TIMEOUT == 30

NoFile == <<>>

\* temp_file = Path(td) / f"{test_case.name}.txt", relative to the temp dir
TempFilePath(tc) == tc.name \o ".txt"

TempPaths == {TempFilePath(Registry[i]) : i \in 1..Len(Registry)}

\* args with every "{file}" replaced by the temp file
SubstArgs(tc) ==
    IF tc.fixture = None THEN tc.args
    ELSE [k \in 1..Len(tc.args) |->
            IF tc.args[k] = "{file}" THEN TempFilePath(tc) ELSE tc.args[k]]

RECURSIVE UniversalNewlines(_)
\* decoding in text mode (text=True, read_text): "\r\n" and "\r" become "\n"
UniversalNewlines(t) ==
    IF t = <<>> THEN <<>>
    ELSE IF Len(t) >= 2 /\ t[1] = CR /\ t[2] = LF
         THEN <<LF>> \o UniversalNewlines(Drop(t, 2))
         ELSE IF t[1] = CR
              THEN <<LF>> \o UniversalNewlines(Tail(t))
              ELSE <<t[1]>> \o UniversalNewlines(Tail(t))

\* what the binary under test writes: "cat" prints the file it was given (and
\* fails when the file is missing), "echo" prints its argument with trailing
\* blanks and a CRLF line end
BinaryOutput(args, seen) ==
    IF args[1] = "cat"
    THEN IF seen = NoFile
         THEN [stdout |-> <<>>, stderr |-> <<"e", CR, LF>>, returncode |-> 1]
         ELSE [stdout |-> seen[1], stderr |-> <<>>, returncode |-> 0]
    ELSE [stdout |-> <<args[2], SP, CR, LF>>, stderr |-> <<>>, returncode |-> 0]

\* the RunResult of the normal return (lines 43-52)
CompletedResult(tc, seen) ==
    LET result == BinaryOutput(SubstArgs(tc), seen)
    IN [test_case |-> tc,
        stdout |-> normalize(UniversalNewlines(result.stdout), tc.normalizations),
        stderr |-> normalize(UniversalNewlines(result.stderr), tc.normalizations),
        exit_code |-> result.returncode]

TimeoutMarker == "TIMEOUT: command exceeded "

\* the RunResult of the TimeoutExpired handler (lines 53-61)
TimeoutResult(tc, timeout) ==
    [test_case |-> tc,
     stdout |-> <<>>,
     stderr |-> <<TimeoutMarker, ToString(timeout), "s">>,
     exit_code |-> -1]


NewTask == [pc |-> "queued", seen |-> NoFile, ret |-> None, exc |-> "", timedOut |-> FALSE]

\* tasks inside run_test_case
Active == {i \in 1..Len(cases) : task[i].pc \notin {"queued", "done", "raised"}}

Finished(i) == task[i].pc \in {"done", "raised"}

\* run_all line 81: tempfile.mkdtemp; line 91-93: every task is submitted
RunAllBegin ==
    /\ runPc = "start"
    /\ tempDir' = TRUE
    /\ runPc' = "loop"
    /\ UNCHANGED <<normVars, storeVars, cliVars, cases, workers, startable, hangs, tempFiles, task, results, collected, apiVars>>

\* run_test_case lines 23-31: the call starts and materializes the fixture.
\* Sequential loop: the next test case once the previous one has been
\* appended; pool: the next submitted task once a worker process is free.
TaskStart(i) ==
    /\ task[i].pc = "queued"
    /\ IF workers <= 1
       THEN runPc = "loop" /\ \A j \in 1..(i - 1) : j \in collected
       ELSE /\ runPc \in {"loop", "unwinding"}
            /\ \A j \in 1..(i - 1) : task[j].pc # "queued"
            /\ Cardinality(Active) < workers
    /\ tempFiles' = IF cases[i].fixture # None
                    THEN [tempFiles EXCEPT ![TempFilePath(cases[i])] = Some(cases[i].fixture[1])]
                    ELSE tempFiles
    /\ task' = [task EXCEPT ![i].pc = "ready"]
    /\ UNCHANGED <<normVars, storeVars, cliVars, cases, workers, startable, hangs, tempDir, results, collected, runPc, apiVars>>

\* SubprocessStart with the cleanup placed after the try statement instead
\* of in a finally clause: the OS error leaves run_test_case at once
SubprocessStart_NoFinally(i) ==
    /\ task[i].pc = "ready"
    /\ IF startable
       THEN LET args == SubstArgs(cases[i])
                seen == IF args[1] = "cat" /\ args[2] \in TempPaths
                        THEN tempFiles[args[2]] ELSE NoFile
            IN task' = [task EXCEPT ![i].pc = "running", ![i].seen = seen]
       ELSE task' = [task EXCEPT ![i].pc = "raised", ![i].exc = "OSError"]
    /\ UNCHANGED <<normVars, storeVars, cliVars, cases, workers, startable, hangs, tempDir, tempFiles, results, collected, runPc, apiVars>>

\* run_test_case line 36: subprocess.run starts the binary, which opens the
\* file named in its arguments; the OS error of a binary that cannot be
\* started is not caught by the except clause
SubprocessStart(i) ==
    /\ task[i].pc = "ready"
    /\ IF startable
       THEN LET args == SubstArgs(cases[i])
                seen == IF args[1] = "cat" /\ args[2] \in TempPaths
                        THEN tempFiles[args[2]] ELSE NoFile
            IN task' = [task EXCEPT ![i].pc = "running", ![i].seen = seen]
       ELSE task' = [task EXCEPT ![i].pc = "finally", ![i].exc = "OSError"]
    /\ UNCHANGED <<normVars, storeVars, cliVars, cases, workers, startable, hangs, tempDir, tempFiles, results, collected, runPc, apiVars>>

\* run_test_case lines 36-61: the subprocess ends, or the timeout expires first
SubprocessEnd(i) ==
    /\ task[i].pc = "running"
    /\ IF golden_key(cases[i]) \in hangs
       THEN task' = [task EXCEPT ![i].pc = "finally", ![i].timedOut = TRUE,
                                 ![i].ret = Some(TimeoutResult(cases[i], DEFAULT_TIMEOUT))]
       ELSE task' = [task EXCEPT ![i].pc = "finally",
                                 ![i].ret = Some(CompletedResult(cases[i], task[i].seen))]
    /\ UNCHANGED <<normVars, storeVars, cliVars, cases, workers, startable, hangs, tempDir, tempFiles, results, collected, runPc, apiVars>>

\* run_test_case line 63: the finally clause tests temp_file.exists()
FinallyExists(i) ==
    /\ task[i].pc = "finally"
    /\ IF cases[i].fixture # None /\ tempFiles[TempFilePath(cases[i])] # NoFile
       THEN task' = [task EXCEPT ![i].pc = "unlink"]
       ELSE task' = [task EXCEPT ![i].pc = IF task[i].exc = "" THEN "done" ELSE "raised"]
    /\ UNCHANGED <<normVars, storeVars, cliVars, cases, workers, startable, hangs, tempDir, tempFiles, results, collected, runPc, apiVars>>

\* run_test_case line 64: temp_file.unlink() removes the file
FinallyUnlink(i) ==
    /\ task[i].pc = "unlink"
    /\ tempFiles[TempFilePath(cases[i])] # NoFile
    /\ tempFiles' = [tempFiles EXCEPT ![TempFilePath(cases[i])] = NoFile]
    /\ task' = [task EXCEPT ![i].pc = IF task[i].exc = "" THEN "done" ELSE "raised"]
    /\ UNCHANGED <<normVars, storeVars, cliVars, cases, workers, startable, hangs, tempDir, results, collected, runPc, apiVars>>

\* run_test_case line 64: temp_file.unlink() finds the file gone and raises
\* FileNotFoundError, which replaces the pending return value
FinallyUnlinkMissing(i) ==
    /\ task[i].pc = "unlink"
    /\ tempFiles[TempFilePath(cases[i])] = NoFile
    /\ task' = [task EXCEPT ![i].pc = "raised", ![i].exc = "FileNotFoundError",
                            ![i].ret = None]
    /\ UNCHANGED <<normVars, storeVars, cliVars, cases, workers, startable, hangs, tempDir, tempFiles, results, collected, runPc, apiVars>>

\* run_all lines 86-87 and 94-96: the result of a returned call is appended
\* (pool: in the order in which the futures complete)
Collect(i) ==
    /\ runPc = "loop"
    /\ task[i].pc = "done"
    /\ i \notin collected
    /\ results' = Append(results, task[i].ret[1])
    /\ collected' = collected \cup {i}
    /\ UNCHANGED <<normVars, storeVars, cliVars, cases, workers, startable, hangs, tempDir, tempFiles, task, runPc, apiVars>>

\* run_all lines 86 and 95: the exception of a raised call leaves the loop;
\* with a pool, leaving the with block waits for the remaining tasks
PropagateException(i) ==
    /\ runPc = "loop"
    /\ task[i].pc = "raised"
    /\ i \notin collected
    /\ collected' = collected \cup {i}
    /\ runPc' = IF workers <= 1 THEN "raised" ELSE "unwinding"
    /\ UNCHANGED <<normVars, storeVars, cliVars, cases, workers, startable, hangs, tempDir, tempFiles, task, results, apiVars>>

\* ProcessPoolExecutor.__exit__: every task has ended, the exception leaves run_all
PoolShutdown ==
    /\ runPc = "unwinding"
    /\ \A i \in 1..Len(cases) : Finished(i)
    /\ runPc' = "raised"
    /\ UNCHANGED <<normVars, storeVars, cliVars, cases, workers, startable, hangs, tempDir, tempFiles, task, results, collected, apiVars>>

\* order = {tc.golden_key: i for i, tc in enumerate(test_cases)}; order.get(key, 0)
OrderGet(tcs, key) ==
    LET S == {i \in 1..Len(tcs) : golden_key(tcs[i]) = key}
    IN IF S = {} THEN 0 ELSE (CHOOSE i \in S : \A j \in S : j <= i) - 1

\* insert r behind every element whose key is not larger (list.sort is stable)
InsertByOrder(tcs, sorted, r) ==
    LET key(x) == OrderGet(tcs, golden_key(x.test_case))
        n == Cardinality({k \in 1..Len(sorted) : key(sorted[k]) <= key(r)})
    IN SubSeq(sorted, 1, n) \o <<r>> \o SubSeq(sorted, n + 1, Len(sorted))

RECURSIVE SortByOrder(_, _)
\* results.sort(key=lambda r: order.get(r.test_case.golden_key, 0))
SortByOrder(tcs, rs) ==
    IF rs = <<>> THEN <<>>
    ELSE InsertByOrder(tcs, SortByOrder(tcs, SubSeq(rs, 1, Len(rs) - 1)), rs[Len(rs)])

\* RunAllReturn leaving the loop at the first collected result, without
\* waiting for the workers that are still running
RunAllReturn_Early ==
    /\ runPc = "loop"
    /\ collected # {}
    /\ results' = SortByOrder(cases, results)
    /\ tempDir' = FALSE
    /\ tempFiles' = [p \in TempPaths |-> NoFile]
    /\ runPc' = "returned"
    /\ UNCHANGED <<normVars, storeVars, cliVars, cases, workers, startable, hangs, task, collected, apiVars>>

\* run_all lines 100-108: sort to input order, remove the temp dir, return
RunAllReturn ==
    /\ runPc = "loop"
    /\ collected = 1..Len(cases)
    /\ results' = SortByOrder(cases, results)
    /\ tempDir' = FALSE
    /\ tempFiles' = [p \in TempPaths |-> NoFile]
    /\ runPc' = "returned"
    /\ UNCHANGED <<normVars, storeVars, cliVars, cases, workers, startable, hangs, task, collected, apiVars>>

-----------------------------------------------------------------------------
(* SpecRun *)

MaxWorkers == 3

RunIdle ==
    /\ cases = <<>>
    /\ workers = 1
    /\ startable = TRUE
    /\ hangs = {}
    /\ tempDir = FALSE
    /\ tempFiles = [p \in TempPaths |-> NoFile]
    /\ task = <<>>
    /\ results = <<>>
    /\ collected = {}
    /\ runPc = "idle"

RunInit ==
    /\ cases \in {discover_test_cases(c, None) : c \in {None} \cup {Some(x) : x \in Categories}}
    /\ workers \in 1..MaxWorkers
    /\ startable \in BOOLEAN
    /\ hangs \in SUBSET {golden_key(cases[i]) : i \in 1..Len(cases)}
    /\ tempDir = FALSE
    /\ tempFiles = [p \in TempPaths |-> NoFile]
    /\ task = [i \in 1..Len(cases) |-> NewTask]
    /\ results = <<>>
    /\ collected = {}
    /\ runPc = "start"

-----------------------------------------------------------------------------
(* manifest.py *)

MANIFEST_FILENAME == "manifest.json"
MANIFEST_VERSION == 1

\* files of the golden directory
Absent == [kind |-> "absent"]
Garbage == [kind |-> "garbage"]
TextFile(t) == [kind |-> "text", content |-> t]
JsonFile(d) == [kind |-> "json", data |-> d]

\* golden_dir / tc.golden_subdir / f"{tc.golden_filename}.json"
JsonPath(tc) == golden_subdir(tc) \o "/" \o golden_filename(tc) \o ".json"

\* golden_dir / tc.golden_subdir / f"{tc.golden_filename}.stdout"
StdoutPath(tc) == golden_subdir(tc) \o "/" \o golden_filename(tc) \o ".stdout"

GoldenPaths ==
    {MANIFEST_FILENAME} \cup {JsonPath(Registry[i]) : i \in 1..Len(Registry)}
                        \cup {StdoutPath(Registry[i]) : i \in 1..Len(Registry)}

\* code points of the characters that occur in captured output
CodePoint(c) ==
    CASE c = LF -> 10
      [] c = CR -> 13
      [] c = SP -> 32
      [] c = "a" -> 97
      [] c = "b" -> 98
      [] c = "e" -> 101
      [] OTHER -> 63

\* hashlib.sha256(content.encode("utf-8")).hexdigest(): the digest of the
\* encoded bytes, distinct for distinct byte sequences
compute_sha256(content) ==
    [sha256 |-> [k \in 1..Len(content) |-> CodePoint(content[k])]]

\* Manifest()
EmptyManifest ==
    [version |-> MANIFEST_VERSION, omni_commit |-> "", recorded_at |-> "", entries |-> <<>>]

\* Manifest.find_entry: the first entry of that identity, None if there is none
find_entry(m, category, name) ==
    LET S == {k \in 1..Len(m.entries) :
                 m.entries[k].category = category /\ m.entries[k].name = name}
    IN IF S = {} THEN None
       ELSE Some(m.entries[CHOOSE k \in S : \A j \in S : k <= j])

\* upsert_entry without the search of lines 41-44: the entry is appended
upsert_entry_AlwaysAppends(m, entry) ==
    [m EXCEPT !.entries = Append(m.entries, entry)]

\* Manifest.upsert_entry: replace the first entry of that identity, else append
upsert_entry(m, entry) ==
    LET S == {k \in 1..Len(m.entries) :
                 m.entries[k].category = entry.category /\ m.entries[k].name = entry.name}
    IN IF S = {} THEN [m EXCEPT !.entries = Append(m.entries, entry)]
       ELSE [m EXCEPT !.entries[CHOOSE k \in S : \A j \in S : k <= j] = entry]

\* Manifest.remove_entry
remove_entry(m, category, name) ==
    [m EXCEPT !.entries =
        SelectSeq(m.entries, LAMBDA e : ~(e.category = category /\ e.name = name))]

\* load_manifest: Manifest() when the file is absent, the stored manifest when
\* it parses; LoadManifestRaises tells when json.load raises instead
LoadManifestRaises(g) == g[MANIFEST_FILENAME].kind = "garbage"

load_manifest(g) ==
    IF g[MANIFEST_FILENAME].kind = "absent" THEN EmptyManifest
    ELSE g[MANIFEST_FILENAME].data

\* save_manifest
save_manifest(g, m) == [g EXCEPT ![MANIFEST_FILENAME] = JsonFile(m)]

-----------------------------------------------------------------------------
(* comparator.py *)

NoDiff == [kind |-> "none"]

\* f"Exit code: expected {expected_exit}, got {result.exit_code}"
ExitCodeDiff(expected, actual) ==
    [kind |-> "exit_code", expected |-> expected, actual |-> actual]

\* _unified_diff(expected, actual, label): non-empty whenever the texts differ
unified_diff(expected, actual, label) ==
    [kind |-> "unified", label |-> label, expected |-> expected, actual |-> actual]

CompareResult(tc, status, diff, error_msg) ==
    [test_case |-> tc, status |-> status, diff |-> diff, error_msg |-> error_msg]

NewMsg == "No golden master. Run 'record' to create baseline."

\* the exception raised inside the try block (lines 36-41), "" if none
LoadGoldenError(g, tc) ==
    IF g[JsonPath(tc)].kind # "json" THEN "JSONDecodeError"
    ELSE IF g[JsonPath(tc)].data.exit_code = None THEN "KeyError: 'exit_code'"
    ELSE ""

\* stdout_path.read_text(encoding="utf-8") if stdout_path.exists() else ""
ExpectedStdout(g, tc) ==
    IF g[StdoutPath(tc)].kind = "text" THEN UniversalNewlines(g[StdoutPath(tc)].content)
    ELSE <<>>

\* meta["exit_code"]
ExpectedExit(g, tc) == g[JsonPath(tc)].data.exit_code[1]

\* meta.get("stderr", "")
ExpectedStderr(g, tc) ==
    IF g[JsonPath(tc)].data.stderr = None THEN <<>> ELSE g[JsonPath(tc)].data.stderr[1]

\* FastPath without the exit-code and stderr tests: the hash alone decides
FastPath_HashOnly(g, m, result) ==
    LET tc == result.test_case
        entry == find_entry(m, tc.category, tc.name)
        actual_sha == compute_sha256(result.stdout)
    IN /\ entry # None
       /\ entry[1].sha256 = actual_sha

\* the condition of line 52
FastPath(g, m, result) ==
    LET tc == result.test_case
        entry == find_entry(m, tc.category, tc.name)
        actual_sha == compute_sha256(result.stdout)
    IN /\ entry # None
       /\ entry[1].sha256 = actual_sha
       /\ result.exit_code = ExpectedExit(g, tc)
       /\ result.stderr = ExpectedStderr(g, tc)

\* DetailedCompare with the stdout test in front of the exit-code test
DetailedCompare_StdoutFirst(g, result) ==
    LET tc == result.test_case
    IN IF result.stdout # ExpectedStdout(g, tc)
       THEN CompareResult(tc, "mismatch",
                          unified_diff(ExpectedStdout(g, tc), result.stdout, golden_key(tc)), "")
       ELSE IF result.exit_code # ExpectedExit(g, tc)
       THEN CompareResult(tc, "mismatch",
                          ExitCodeDiff(ExpectedExit(g, tc), result.exit_code), "")
       ELSE IF result.stderr # ExpectedStderr(g, tc)
       THEN CompareResult(tc, "mismatch",
                          unified_diff(ExpectedStderr(g, tc), result.stderr,
                                       golden_key(tc) \o " (stderr)"), "")
       ELSE CompareResult(tc, "match", NoDiff, "")

\* the detailed comparison of lines 56-78
DetailedCompare(g, result) ==
    LET tc == result.test_case
    IN IF result.exit_code # ExpectedExit(g, tc)
       THEN CompareResult(tc, "mismatch",
                          ExitCodeDiff(ExpectedExit(g, tc), result.exit_code), "")
       ELSE IF result.stdout # ExpectedStdout(g, tc)
       THEN CompareResult(tc, "mismatch",
                          unified_diff(ExpectedStdout(g, tc), result.stdout, golden_key(tc)), "")
       ELSE IF result.stderr # ExpectedStderr(g, tc)
       THEN CompareResult(tc, "mismatch",
                          unified_diff(ExpectedStderr(g, tc), result.stderr,
                                       golden_key(tc) \o " (stderr)"), "")
       ELSE CompareResult(tc, "match", NoDiff, "")

\* one iteration of the loop of compare_results (lines 21-78)
CompareOne(g, m, result) ==
    LET tc == result.test_case
    IN IF g[JsonPath(tc)].kind = "absent"
       THEN CompareResult(tc, "new", NoDiff, NewMsg)
       ELSE IF LoadGoldenError(g, tc) # ""
       THEN CompareResult(tc, "error", NoDiff,
                          "Failed to load golden: " \o LoadGoldenError(g, tc))
       ELSE IF FastPath(g, m, result)
       THEN CompareResult(tc, "match", NoDiff, "")
       ELSE DetailedCompare(g, result)

\* compare_results with a CompareResult of status missing appended for every
\* manifest entry whose test case was not executed
compare_results_ReportsMissing(g, rs) ==
    LET m == load_manifest(g)
        ran == {golden_key(rs[k].test_case) : k \in 1..Len(rs)}
        stale == SelectSeq(m.entries, LAMBDA e : (e.category \o "/" \o e.name) \notin ran)
    IN [k \in 1..Len(rs) |-> CompareOne(g, m, rs[k])]
           \o [k \in 1..Len(stale) |->
                  CompareResult([name |-> stale[k].name, category |-> stale[k].category],
                                "missing", NoDiff, "")]

\* compare_results(results, golden_dir) when load_manifest returns
compare_results(g, rs) ==
    [k \in 1..Len(rs) |-> CompareOne(g, load_manifest(g), rs[k])]

-----------------------------------------------------------------------------
(* recorder.py *)

NoFailure == [at |-> 0, step |-> "none"]

\* EntryOf with the hash taken over stdout and stderr together
EntryOf_HashesStderr(result) ==
    LET tc == result.test_case
    IN [category |-> tc.category,
        name |-> tc.name,
        golden_path |-> golden_subdir(tc) \o "/" \o golden_filename(tc) \o ".stdout",
        sha256 |-> compute_sha256(result.stdout \o result.stderr),
        exit_code |-> result.exit_code,
        normalizations |-> tc.normalizations]

\* the entry built in lines 48-55
EntryOf(result) ==
    LET tc == result.test_case
    IN [category |-> tc.category,
        name |-> tc.name,
        golden_path |-> golden_subdir(tc) \o "/" \o golden_filename(tc) \o ".stdout",
        sha256 |-> compute_sha256(result.stdout),
        exit_code |-> result.exit_code,
        normalizations |-> tc.normalizations]

\* the metadata written in lines 37-45
MetaOf(result) ==
    [exit_code |-> Some(result.exit_code), stderr |-> Some(result.stderr)]

RECURSIVE RecordLoop(_, _, _, _)
\* the loop of record_golden from the k-th result on; st holds the golden
\* directory, the manifest in memory and the exception raised so far.
\* fail names the write the file system refuses: opening the sidecar
\* ("stdout"), or writing the metadata after its file was truncated
\* ("json_write").
RecordLoop(st, rs, k, fail) ==
    IF k > Len(rs) THEN st
    ELSE LET tc == rs[k].test_case
             g1 == [st.golden EXCEPT ![StdoutPath(tc)] = TextFile(rs[k].stdout)]
             g2 == [g1 EXCEPT ![JsonPath(tc)] = JsonFile(MetaOf(rs[k]))]
         IN IF fail = [at |-> k, step |-> "stdout"]
            THEN [st EXCEPT !.raised = "OSError"]
            ELSE IF fail = [at |-> k, step |-> "json_write"]
            THEN [st EXCEPT !.golden = [g1 EXCEPT ![JsonPath(tc)] = Garbage],
                            !.raised = "OSError"]
            ELSE RecordLoop([golden |-> g2,
                             manifest |-> upsert_entry(st.manifest, EntryOf(rs[k])),
                             raised |-> ""],
                            rs, k + 1, fail)

\* record_golden starting from Manifest() instead of the manifest on disk
record_golden_FreshManifest(g, rs, commit, now, fail) ==
    IF fail.step = "mkdir"
    THEN [golden |-> g, raised |-> "OSError"]
    ELSE IF LoadManifestRaises(g)
    THEN [golden |-> g, raised |-> "JSONDecodeError"]
    ELSE LET m0 == [EmptyManifest EXCEPT !.omni_commit = commit, !.recorded_at = now]
             st == RecordLoop([golden |-> g, manifest |-> m0, raised |-> ""], rs, 1, fail)
         IN IF st.raised # ""
            THEN [golden |-> st.golden, raised |-> st.raised]
            ELSE IF fail.step = "manifest_write"
            THEN [golden |-> [st.golden EXCEPT ![MANIFEST_FILENAME] = Garbage],
                  raised |-> "OSError"]
            ELSE [golden |-> save_manifest(st.golden, st.manifest), raised |-> ""]

\* record_golden(results, golden_dir): the golden directory afterwards and
\* the exception raised ("" when it returns)
record_golden(g, rs, commit, now, fail) ==
    IF fail.step = "mkdir"
    THEN [golden |-> g, raised |-> "OSError"]
    ELSE IF LoadManifestRaises(g)
    THEN [golden |-> g, raised |-> "JSONDecodeError"]
    ELSE LET m0 == [load_manifest(g) EXCEPT !.omni_commit = commit, !.recorded_at = now]
             st == RecordLoop([golden |-> g, manifest |-> m0, raised |-> ""], rs, 1, fail)
         IN IF st.raised # ""
            THEN [golden |-> st.golden, raised |-> st.raised]
            ELSE IF fail.step = "manifest_write"
            THEN [golden |-> [st.golden EXCEPT ![MANIFEST_FILENAME] = Garbage],
                  raised |-> "OSError"]
            ELSE [golden |-> save_manifest(st.golden, st.manifest), raised |-> ""]


-----------------------------------------------------------------------------
(* SpecStore: record and compare runs over the golden directory *)

\* get_git_commit() and now_iso() at the time of a record run
Provenance ==
    {[commit |-> "abc1234", now |-> "T1"], [commit |-> "unknown", now |-> "T2"]}

\* the RunResults run_all can hand over: for the first test case a result
\* that differs from <<"a", LF>>, 0, <<>> in any one field, for the others
\* two different outputs
StoreResults(tc) ==
    IF tc = Registry[1]
    THEN {[test_case |-> tc, stdout |-> <<"a", LF>>, stderr |-> <<>>, exit_code |-> 0],
          [test_case |-> tc, stdout |-> <<"b", LF>>, stderr |-> <<>>, exit_code |-> 0],
          [test_case |-> tc, stdout |-> <<"a", LF>>, stderr |-> <<>>, exit_code |-> 1],
          [test_case |-> tc, stdout |-> <<"a", LF>>, stderr |-> <<"e", LF>>, exit_code |-> 0]}
    ELSE [test_case : {tc}, stdout : {<<"a", LF>>, <<"b", LF>>},
          stderr : {<<>>}, exit_code : {0}]

\* the test cases of a run with --pattern cat and any --category
CaseLists ==
    {discover_test_cases(c, Some("cat")) : c \in {None} \cup {Some(x) : x \in Categories}}

RECURSIVE BatchesOf(_)
BatchesOf(tcs) ==
    IF tcs = <<>> THEN {<<>>}
    ELSE {<<r>> \o rest : r \in StoreResults(tcs[1]), rest \in BatchesOf(Tail(tcs))}

Batches == UNION {BatchesOf(tcs) : tcs \in CaseLists}

\* the writes of record_golden the file system can refuse
Failures(rs) ==
    {[at |-> 0, step |-> "mkdir"], [at |-> Len(rs) + 1, step |-> "manifest_write"]}
        \cup [at : 1..Len(rs), step : {"stdout", "json_write"}]

NoOp == [kind |-> "none", results |-> <<>>, fail |-> NoFailure, raised |-> "",
         comparisons |-> <<>>]

StoreIdle ==
    /\ golden = [p \in GoldenPaths |-> Absent]
    /\ op = NoOp

\* hand-written metadata of the first test case: no exit_code key; or an exit
\* code only and no sidecar
SeedMeta ==
    {Absent,
     JsonFile([exit_code |-> None, stderr |-> None]),
     JsonFile([exit_code |-> Some(0), stderr |-> None])}

StoreInit ==
    /\ golden \in {[[p \in GoldenPaths |-> Absent] EXCEPT ![JsonPath(Registry[1])] = m] :
                      m \in SeedMeta}
    /\ op = NoOp

\* cli.py lines 124-125: record_golden on the results of a run
RecordGolden ==
    /\ op = NoOp
    /\ \E rs \in Batches, pv \in Provenance :
        LET out == record_golden(golden, rs, pv.commit, pv.now, NoFailure)
        IN /\ golden' = out.golden
           /\ op' = [kind |-> "record", results |-> rs, fail |-> NoFailure,
                     raised |-> out.raised, comparisons |-> <<>>]
    /\ UNCHANGED <<normVars, runVars, cliVars, apiVars>>

\* the same call when the file system refuses one of its writes
RecordGoldenIOError ==
    /\ op = NoOp
    /\ \E rs \in Batches, pv \in Provenance :
        \E fail \in Failures(rs) :
            LET out == record_golden(golden, rs, pv.commit, pv.now, fail)
            IN /\ golden' = out.golden
               /\ op' = [kind |-> "record", results |-> rs, fail |-> fail,
                         raised |-> out.raised, comparisons |-> <<>>]
    /\ UNCHANGED <<normVars, runVars, cliVars, apiVars>>

\* CompareResults leaving out the test cases that have no baseline
CompareResults_SkipsNew ==
    /\ op = NoOp
    /\ \E rs \in Batches :
        op' = IF LoadManifestRaises(golden)
              THEN [kind |-> "compare", results |-> rs, fail |-> NoFailure,
                    raised |-> "JSONDecodeError", comparisons |-> <<>>]
              ELSE [kind |-> "compare", results |-> rs, fail |-> NoFailure,
                    raised |-> "",
                    comparisons |-> SelectSeq(compare_results(golden, rs),
                                              LAMBDA c : c.status # "new")]
    /\ UNCHANGED <<golden, normVars, runVars, cliVars, apiVars>>

\* cli.py lines 133-134: compare_results on the results of a run
CompareResults ==
    /\ op = NoOp
    /\ \E rs \in Batches :
        op' = IF LoadManifestRaises(golden)
              THEN [kind |-> "compare", results |-> rs, fail |-> NoFailure,
                    raised |-> "JSONDecodeError", comparisons |-> <<>>]
              ELSE [kind |-> "compare", results |-> rs, fail |-> NoFailure,
                    raised |-> "", comparisons |-> compare_results(golden, rs)]
    /\ UNCHANGED <<golden, normVars, runVars, cliVars, apiVars>>

\* cli.py lines 128 and 135: the process ends; the golden directory stays
Exit ==
    /\ op # NoOp
    /\ op' = NoOp
    /\ UNCHANGED <<golden, normVars, runVars, cliVars, apiVars>>

-----------------------------------------------------------------------------
(* SpecManifest: record batches and the Manifest methods on one manifest file *)

\* the entries record_golden builds for the results a run can hand over
StoreEntries ==
    {EntryOf(r) : r \in UNION {StoreResults(Registry[i]) : i \in 1..Len(Registry)}}

\* Manifest.upsert_entry(entry) on the manifest of the golden directory:
\* load_manifest, upsert_entry, save_manifest
UpsertEntry ==
    /\ op = NoOp
    /\ ~LoadManifestRaises(golden)
    /\ \E e \in StoreEntries :
           golden' = save_manifest(golden, upsert_entry(load_manifest(golden), e))
    /\ UNCHANGED <<op, normVars, runVars, cliVars, apiVars>>

\* Manifest.remove_entry(category, name) on the manifest of the golden
\* directory: load_manifest, remove_entry, save_manifest
RemoveEntry ==
    /\ op = NoOp
    /\ ~LoadManifestRaises(golden)
    /\ \E i \in 1..Len(Registry) :
           golden' = save_manifest(golden,
                                   remove_entry(load_manifest(golden),
                                                Registry[i].category, Registry[i].name))
    /\ UNCHANGED <<op, normVars, runVars, cliVars, apiVars>>

-----------------------------------------------------------------------------
(* SpecMethods: method calls on one Manifest object *)

\* Manifest(): a new object, no method called yet
NoCall == [fn |-> "", before |-> EmptyManifest, entry |-> None, after |-> EmptyManifest]

CallIdle == call = NoCall

\* an upsert that drops the old entry of the identity and appends the new one
UpsertEntryCall_MovesToEnd ==
    /\ \E e \in StoreEntries :
           call' = [fn |-> "upsert_entry", before |-> call.after, entry |-> Some(e),
                    after |-> [call.after EXCEPT !.entries =
                                  Append(SelectSeq(call.after.entries,
                                                   LAMBDA x : ~(x.category = e.category
                                                                /\ x.name = e.name)),
                                         e)]]
    /\ UNCHANGED <<normVars, runVars, storeVars, cliVars, rec>>

\* manifest.upsert_entry(entry)
UpsertEntryCall ==
    /\ \E e \in StoreEntries :
           call' = [fn |-> "upsert_entry", before |-> call.after, entry |-> Some(e),
                    after |-> upsert_entry(call.after, e)]
    /\ UNCHANGED <<normVars, runVars, storeVars, cliVars, rec>>

\* manifest.remove_entry(category, name)
RemoveEntryCall ==
    /\ \E i \in 1..Len(Registry) :
           call' = [fn |-> "remove_entry", before |-> call.after, entry |-> None,
                    after |-> remove_entry(call.after, Registry[i].category, Registry[i].name)]
    /\ UNCHANGED <<normVars, runVars, storeVars, cliVars, rec>>

-----------------------------------------------------------------------------
(* report.py *)

\* the keys of the counts dictionary of line 27
ReportStatuses == {"match", "mismatch", "new", "missing", "error"}

RECURSIVE CountLoop(_, _)
\* the loop of lines 29-32: counts[r.status] = counts.get(r.status, 0) + 1
CountLoop(counts, rs) ==
    IF rs = <<>> THEN counts
    ELSE LET s == rs[1].status
             c == IF s \in DOMAIN counts THEN counts[s] ELSE 0
         IN CountLoop([k \in DOMAIN counts \cup {s} |-> IF k = s THEN c + 1 ELSE counts[k]],
                      Tail(rs))

\* print_report with the tests of lines 67 and 69 in the other order
print_report_MismatchFirst(rs) ==
    LET counts == CountLoop([k \in ReportStatuses |-> 0], rs)
    IN IF counts["mismatch"] # 0 \/ counts["new"] # 0 THEN 1
       ELSE IF counts["error"] # 0 THEN 2
       ELSE 0

\* print_report(results): the exit code of lines 67-71
print_report(rs) ==
    LET counts == CountLoop([k \in ReportStatuses |-> 0], rs)
    IN IF counts["error"] # 0 THEN 2
       ELSE IF counts["mismatch"] # 0 \/ counts["new"] # 0 THEN 1
       ELSE 0

-----------------------------------------------------------------------------
(* SpecReport: print_report on a list of CompareResults *)

MaxReport == 3

RECURSIVE ReportsUpTo(_)
\* the lists of at most n CompareResults, of every status CompareResult declares
ReportsUpTo(n) ==
    IF n = 0 THEN {<<>>}
    ELSE LET S == ReportsUpTo(n - 1)
         IN S \cup {Append(rs, CompareResult(Registry[1], st, NoDiff, "")) :
                       rs \in S, st \in ReportStatuses}

ReportIdle == report = [results |-> <<>>, code |-> None]

ReportInit ==
    /\ report \in [results : ReportsUpTo(MaxReport), code : {None}]

\* cli.py line 135: print_report(comparisons)
PrintReport ==
    /\ report.code = None
    /\ report' = [report EXCEPT !.code = Some(print_report(report.results))]
    /\ UNCHANGED <<normVars, runVars, storeVars, cli, apiVars>>

-----------------------------------------------------------------------------
(* incremental.py *)

RECURSIVE ChangedLoop_SkipsUnchanged(_, _, _)
\* ChangedLoop as its docstring describes it: a test case with a manifest
\* entry and a baseline on disk is left out
ChangedLoop_SkipsUnchanged(tcs, g, m) ==
    IF tcs = <<>> THEN <<>>
    ELSE LET tc == tcs[1]
             entry == find_entry(m, tc.category, tc.name)
         IN IF entry = None
            THEN <<tc>> \o ChangedLoop_SkipsUnchanged(Tail(tcs), g, m)
            ELSE IF g[JsonPath(tc)].kind = "absent"
            THEN <<tc>> \o ChangedLoop_SkipsUnchanged(Tail(tcs), g, m)
            ELSE ChangedLoop_SkipsUnchanged(Tail(tcs), g, m)

RECURSIVE ChangedLoop(_, _, _)
\* the loop of filter_changed_cases (lines 39-54): a test case is appended
\* when it has no manifest entry, when its baseline metadata is not on disk,
\* and also otherwise
ChangedLoop(tcs, g, m) ==
    IF tcs = <<>> THEN <<>>
    ELSE LET tc == tcs[1]
             entry == find_entry(m, tc.category, tc.name)
         IN IF entry = None
            THEN <<tc>> \o ChangedLoop(Tail(tcs), g, m)
            ELSE IF g[JsonPath(tc)].kind = "absent"
            THEN <<tc>> \o ChangedLoop(Tail(tcs), g, m)
            ELSE <<tc>> \o ChangedLoop(Tail(tcs), g, m)

\* filter_changed_cases(cases, golden_dir) when load_manifest returns
filter_changed_cases(tcs, g) == ChangedLoop(tcs, g, load_manifest(g))

-----------------------------------------------------------------------------
(* cli.py: main() *)

Commands == {"record", "compare", "list", "update", "map"}

NoCli == [pc |-> "idle", command |-> "", registry |-> TRUE, binary |-> TRUE,
          category |-> None, update_pattern |-> None, incremental |-> FALSE,
          writable |-> TRUE, code |-> None, raised |-> ""]

CliIdle == cli = NoCli

\* main returns code
Return(code) == [cli EXCEPT !.pc = "exited", !.code = Some(code)]

\* an exception leaves main: the interpreter prints the traceback and the
\* process ends with status 1
Uncaught(exc) == [cli EXCEPT !.pc = "exited", !.code = Some(1), !.raised = exc]

\* lines 60-72: discovery, the update filter and the empty-list return
CliDiscover ==
    /\ cli.pc = "start"
    /\ IF ~cli.registry
       THEN cli' = Return(1) /\ UNCHANGED cases
       ELSE LET found == discover_test_cases(cli.category, None)
                kept == IF cli.command = "update" /\ cli.update_pattern # None
                        THEN SelectSeq(found,
                                       LAMBDA tc : NameContains(tc.name, cli.update_pattern[1]))
                        ELSE found
            IN /\ cases' = kept
               /\ cli' = IF kept = <<>> THEN Return(0) ELSE [cli EXCEPT !.pc = "discovered"]
    /\ UNCHANGED <<normVars, storeVars, report, workers, startable, hangs, tempDir,
                   tempFiles, task, results, collected, runPc, apiVars>>

\* the condition of line 75
Incremental == cli.incremental /\ cli.command \in {"record", "compare"}

\* lines 74-80: cases = filter_changed_cases(cases, golden_dir)
CliIncremental ==
    /\ cli.pc = "discovered"
    /\ Incremental
    /\ IF LoadManifestRaises(golden)
       THEN cli' = Uncaught("JSONDecodeError") /\ UNCHANGED cases
       ELSE /\ cases' = filter_changed_cases(cases, golden)
            /\ cli' = [cli EXCEPT !.pc = "filtered"]
    /\ UNCHANGED <<normVars, storeVars, report, workers, startable, hangs, tempDir,
                   tempFiles, task, results, collected, runPc, apiVars>>

\* lines 82-118 and the call of run_all in lines 124 and 133
CliDispatch ==
    /\ \/ cli.pc = "filtered"
       \/ cli.pc = "discovered" /\ ~Incremental
    /\ IF cli.command \in {"list", "map"}
       THEN cli' = Return(0) /\ UNCHANGED <<task, runPc>>
       ELSE IF ~cli.binary
       THEN cli' = Return(1) /\ UNCHANGED <<task, runPc>>
       ELSE /\ cli' = [cli EXCEPT !.pc = "running"]
            /\ task' = [i \in 1..Len(cases) |-> NewTask]
            /\ runPc' = "start"
    /\ UNCHANGED <<normVars, storeVars, report, cases, workers, startable, hangs, tempDir,
                   tempFiles, results, collected, apiVars>>

\* the write record_golden is refused first when the golden directory is
\* not writable: creating the directory, or opening the first sidecar
Unwritable == {[at |-> 0, step |-> "mkdir"], [at |-> 1, step |-> "stdout"]}

\* lines 125-128: record_golden on what run_all returned
CliRecord ==
    /\ cli.pc = "running"
    /\ runPc = "returned"
    /\ cli.command \in {"record", "update"}
    /\ \E pv \in Provenance, fail \in IF cli.writable THEN {NoFailure} ELSE Unwritable :
        LET out == record_golden(golden, results, pv.commit, pv.now, fail)
        IN /\ golden' = out.golden
           /\ cli' = IF out.raised = "" THEN Return(0) ELSE Uncaught(out.raised)
    /\ UNCHANGED <<normVars, runVars, op, report, apiVars>>

\* lines 134-135: compare_results on what run_all returned, then print_report
CliCompare ==
    /\ cli.pc = "running"
    /\ runPc = "returned"
    /\ cli.command = "compare"
    /\ IF LoadManifestRaises(golden)
       THEN cli' = Uncaught("JSONDecodeError") /\ UNCHANGED report
       ELSE LET comparisons == compare_results(golden, results)
            IN /\ report' = [results |-> comparisons,
                             code |-> Some(print_report(comparisons))]
               /\ cli' = Return(print_report(comparisons))
    /\ UNCHANGED <<normVars, runVars, storeVars, apiVars>>

\* lines 124 and 133: the exception run_all raised leaves main
CliRunAllRaised ==
    /\ cli.pc = "running"
    /\ runPc = "raised"
    /\ cli' = Uncaught("run_all")
    /\ UNCHANGED <<normVars, runVars, storeVars, report, apiVars>>

-----------------------------------------------------------------------------
(* SpecCli: one run of the command line *)

\* the golden directory a run finds: empty; as a record run of text/cat left
\* it; the same with the baseline files deleted, or with the manifest
\* deleted; or with a manifest file that does not parse
GoldenSeeds ==
    LET empty == [p \in GoldenPaths |-> Absent]
        r == [test_case |-> Registry[1], stdout |-> <<"a", LF>>, stderr |-> <<>>,
              exit_code |-> 0]
        recorded == record_golden(empty, <<r>>, "abc1234", "T1", NoFailure).golden
    IN {empty,
        recorded,
        [recorded EXCEPT ![JsonPath(Registry[1])] = Absent, ![StdoutPath(Registry[1])] = Absent],
        [recorded EXCEPT ![MANIFEST_FILENAME] = Absent],
        [recorded EXCEPT ![MANIFEST_FILENAME] = Garbage]}

CliInit ==
    /\ cli \in [pc : {"start"}, command : Commands, registry : BOOLEAN, binary : BOOLEAN,
                category : {None, Some("data")}, update_pattern : {None, Some("echo")},
                incremental : BOOLEAN, writable : BOOLEAN, code : {None}, raised : {""}]
    /\ cli.update_pattern # None => cli.command = "update"
    /\ report = [results |-> <<>>, code |-> None]
    /\ golden \in GoldenSeeds
    /\ op = NoOp
    /\ cases = <<>>
    /\ workers \in {1, MaxWorkers}
    /\ startable \in BOOLEAN
    /\ hangs = {}
    /\ tempDir = FALSE
    /\ tempFiles = [p \in TempPaths |-> NoFile]
    /\ task = <<>>
    /\ results = <<>>
    /\ collected = {}
    /\ runPc = "idle"

-----------------------------------------------------------------------------
(* SpecRecord: one call of record_golden, write by write *)

NoRec == [pc |-> "idle", results |-> <<>>, commit |-> "", now |-> "", fail |-> NoFailure,
          k |-> 0, manifest |-> EmptyManifest, writes |-> <<>>, raised |-> ""]

RecIdle == rec = NoRec

ApiIdle == CallIdle /\ RecIdle

RecordInit ==
    /\ golden \in GoldenSeeds
    /\ op = NoOp
    /\ \E rs \in Batches, pv \in Provenance :
           \E fail \in {NoFailure} \cup Failures(rs) :
               rec = [pc |-> "start", results |-> rs, commit |-> pv.commit, now |-> pv.now,
                      fail |-> fail, k |-> 0, manifest |-> EmptyManifest, writes |-> <<>>,
                      raised |-> ""]

\* the exception leaves record_golden
RecRaise(exc) == [rec EXCEPT !.pc = "raised", !.raised = exc]

\* lines 21-24: the directory is made, the manifest loaded and stamped
RecordBegin ==
    /\ rec.pc = "start"
    /\ IF rec.fail.step = "mkdir"
       THEN rec' = RecRaise("OSError")
       ELSE IF LoadManifestRaises(golden)
       THEN rec' = RecRaise("JSONDecodeError")
       ELSE rec' = [rec EXCEPT !.pc = IF rec.results = <<>> THEN "save" ELSE "stdout",
                               !.k = 1,
                               !.manifest = [load_manifest(golden)
                                                EXCEPT !.omni_commit = rec.commit,
                                                       !.recorded_at = rec.now]]
    /\ UNCHANGED <<normVars, runVars, storeVars, cliVars, call>>

\* lines 27-34: the sidecar of the k-th result is opened and written
RecordWriteStdout ==
    /\ rec.pc = "stdout"
    /\ LET r == rec.results[rec.k]
           tc == r.test_case
       IN IF rec.fail = [at |-> rec.k, step |-> "stdout"]
          THEN rec' = RecRaise("OSError") /\ UNCHANGED golden
          ELSE /\ golden' = [golden EXCEPT ![StdoutPath(tc)] = TextFile(r.stdout)]
               /\ rec' = [rec EXCEPT !.pc = "json", !.writes = Append(rec.writes, StdoutPath(tc))]
    /\ UNCHANGED <<normVars, runVars, op, cliVars, call>>

\* RecordWriteJson persisting the manifest after every entry
RecordWriteJson_SavesManifest ==
    /\ rec.pc = "json"
    /\ LET r == rec.results[rec.k]
           tc == r.test_case
           m == upsert_entry(rec.manifest, EntryOf(r))
       IN IF rec.fail = [at |-> rec.k, step |-> "json_write"]
          THEN /\ golden' = [golden EXCEPT ![JsonPath(tc)] = Garbage]
               /\ rec' = [RecRaise("OSError") EXCEPT !.writes = Append(rec.writes, JsonPath(tc))]
          ELSE /\ golden' = save_manifest([golden EXCEPT ![JsonPath(tc)] = JsonFile(MetaOf(r))], m)
               /\ rec' = [rec EXCEPT !.pc = IF rec.k = Len(rec.results) THEN "save" ELSE "stdout",
                                     !.k = rec.k + 1,
                                     !.manifest = m,
                                     !.writes = rec.writes \o <<JsonPath(tc), MANIFEST_FILENAME>>]
    /\ UNCHANGED <<normVars, runVars, op, cliVars, call>>

\* lines 36-56: the metadata of the k-th result is written and its entry
\* upserted in the manifest in memory
RecordWriteJson ==
    /\ rec.pc = "json"
    /\ LET r == rec.results[rec.k]
           tc == r.test_case
       IN IF rec.fail = [at |-> rec.k, step |-> "json_write"]
          THEN /\ golden' = [golden EXCEPT ![JsonPath(tc)] = Garbage]
               /\ rec' = [RecRaise("OSError") EXCEPT !.writes = Append(rec.writes, JsonPath(tc))]
          ELSE /\ golden' = [golden EXCEPT ![JsonPath(tc)] = JsonFile(MetaOf(r))]
               /\ rec' = [rec EXCEPT !.pc = IF rec.k = Len(rec.results) THEN "save" ELSE "stdout",
                                     !.k = rec.k + 1,
                                     !.manifest = upsert_entry(rec.manifest, EntryOf(r)),
                                     !.writes = Append(rec.writes, JsonPath(tc))]
    /\ UNCHANGED <<normVars, runVars, op, cliVars, call>>

\* lines 61-62: save_manifest, then the return
RecordSaveManifest ==
    /\ rec.pc = "save"
    /\ IF rec.fail.step = "manifest_write"
       THEN /\ golden' = [golden EXCEPT ![MANIFEST_FILENAME] = Garbage]
            /\ rec' = [RecRaise("OSError") EXCEPT !.writes = Append(rec.writes, MANIFEST_FILENAME)]
       ELSE /\ golden' = save_manifest(golden, rec.manifest)
            /\ rec' = [rec EXCEPT !.pc = "returned",
                                  !.writes = Append(rec.writes, MANIFEST_FILENAME)]
    /\ UNCHANGED <<normVars, runVars, op, cliVars, call>>

-----------------------------------------------------------------------------
(* The specifications *)

NormNext == NormalizeCall

RunNext ==
    \/ RunAllBegin
    \/ \E i \in 1..Len(cases) : TaskStart(i)
    \/ \E i \in 1..Len(cases) : SubprocessStart(i)
    \/ \E i \in 1..Len(cases) : SubprocessEnd(i)
    \/ \E i \in 1..Len(cases) : FinallyExists(i)
    \/ \E i \in 1..Len(cases) : FinallyUnlink(i)
    \/ \E i \in 1..Len(cases) : FinallyUnlinkMissing(i)
    \/ \E i \in 1..Len(cases) : Collect(i)
    \/ \E i \in 1..Len(cases) : PropagateException(i)
    \/ PoolShutdown
    \/ RunAllReturn

StoreNext ==
    \/ RecordGolden
    \/ RecordGoldenIOError
    \/ CompareResults
    \/ Exit

ManifestNext ==
    \/ RecordGolden
    \/ UpsertEntry
    \/ RemoveEntry
    \/ Exit

MethodsNext ==
    \/ UpsertEntryCall
    \/ RemoveEntryCall

RecordNext ==
    \/ RecordBegin
    \/ RecordWriteStdout
    \/ RecordWriteJson
    \/ RecordSaveManifest

ReportNext == PrintReport

CliNext ==
    \/ CliDiscover
    \/ CliIncremental
    \/ CliDispatch
    \/ RunAllBegin
    \/ \E i \in DOMAIN task : TaskStart(i)
    \/ \E i \in DOMAIN task : SubprocessStart(i)
    \/ \E i \in DOMAIN task : SubprocessEnd(i)
    \/ \E i \in DOMAIN task : FinallyExists(i)
    \/ \E i \in DOMAIN task : FinallyUnlink(i)
    \/ \E i \in DOMAIN task : FinallyUnlinkMissing(i)
    \/ \E i \in DOMAIN task : Collect(i)
    \/ \E i \in DOMAIN task : PropagateException(i)
    \/ PoolShutdown
    \/ RunAllReturn
    \/ CliRecord
    \/ CliCompare
    \/ CliRunAllRaised

InitNorm == NormInit /\ RunIdle /\ StoreIdle /\ ReportIdle /\ CliIdle /\ ApiIdle

InitRun == NormIdle /\ RunInit /\ StoreIdle /\ ReportIdle /\ CliIdle /\ ApiIdle

InitStore == NormIdle /\ RunIdle /\ StoreInit /\ ReportIdle /\ CliIdle /\ ApiIdle

InitReport == NormIdle /\ RunIdle /\ StoreIdle /\ ReportInit /\ CliIdle /\ ApiIdle

InitCli == NormIdle /\ CliInit /\ ApiIdle

InitMethods == NormIdle /\ RunIdle /\ StoreIdle /\ ReportIdle /\ CliIdle /\ ApiIdle

InitRecord == NormIdle /\ RunIdle /\ ReportIdle /\ CliIdle /\ CallIdle /\ RecordInit

SpecNorm == InitNorm /\ [][NormNext]_vars

SpecRun == InitRun /\ [][RunNext]_vars

SpecStore == InitStore /\ [][StoreNext]_vars

SpecManifest == InitStore /\ [][ManifestNext]_vars

SpecMethods == InitMethods /\ [][MethodsNext]_vars

SpecRecord == InitRecord /\ [][RecordNext]_vars

SpecReport == InitReport /\ [][ReportNext]_vars

SpecCli == InitCli /\ [][CliNext]_vars

-----------------------------------------------------------------------------
(* Properties *)

\* C4: normalize is idempotent: normalizing the result of normalize(x, N)
\* again with the same names N gives the same text, for every text x and
\* every list N of normalizer names.
C4_NormalizeIdempotent ==
    Len(normOut) = 2 => normOut[2] = normOut[1]

\* what the loop of run_all yields for a test case when nothing else runs
\* beside it: the subprocess sees the test case's own fixture
AloneResult(tc) ==
    IF golden_key(tc) \in hangs
    THEN TimeoutResult(tc, DEFAULT_TIMEOUT)
    ELSE CompletedResult(tc, IF tc.fixture = None THEN NoFile ELSE Some(tc.fixture[1]))

\* C3: run_all returns the RunResults in the order of the input list for
\* every worker count and completion order, and they are the RunResults a
\* run with one worker returns for the same test cases.
C3_SameResultsForEveryWorkerCount ==
    runPc = "returned" => results = [k \in 1..Len(cases) |-> AloneResult(cases[k])]

\* C5: two test cases with distinct (category, name) that have fixtures and
\* are inside run_test_case at the same time use distinct temp-file paths.
C5_DistinctFixturePaths ==
    \A i, j \in Active :
        (/\ i # j
         /\ golden_key(cases[i]) # golden_key(cases[j])
         /\ cases[i].fixture # None /\ cases[j].fixture # None)
            => TempFilePath(cases[i]) # TempFilePath(cases[j])

\* C9: a run_test_case call whose subprocess exceeded the timeout returns,
\* and returns the RunResult with exit code -1, empty stdout and the timeout
\* marker in stderr; it does not raise.
C9_TimeoutReturnsSentinel ==
    \A i \in 1..Len(cases) :
        (task[i].timedOut /\ Finished(i))
            => /\ task[i].pc = "done"
               /\ task[i].ret # None
               /\ task[i].ret[1].exit_code = -1
               /\ task[i].ret[1].stdout = <<>>
               /\ \E k \in 1..Len(task[i].ret[1].stderr) :
                      task[i].ret[1].stderr[k] = TimeoutMarker

\* C10: when a test case of the batch timed out, run_all still ends by
\* returning one RunResult per input test case: the sentinel for the timed-out
\* ones, its own subprocess's outcome for every other one.
C10_TimeoutDoesNotStopTheBatch ==
    (runPc \in {"returned", "raised"} /\ \E i \in 1..Len(cases) : task[i].timedOut)
        => /\ runPc = "returned"
           /\ Len(results) = Len(cases)
           /\ \A k \in 1..Len(cases) :
                  /\ results[k].test_case = cases[k]
                  /\ results[k] = IF task[k].timedOut
                                  THEN TimeoutResult(cases[k], DEFAULT_TIMEOUT)
                                  ELSE CompletedResult(cases[k], task[k].seen)

\* the baseline of tc exists and loads
BaselineLoads(g, tc) == g[JsonPath(tc)].kind # "absent" /\ LoadGoldenError(g, tc) = ""

\* C1: whenever compare_results takes the hash fast path for a result whose
\* baseline exists and loads, the status it returns is the status of the full
\* comparison of exit code, stdout against the stored sidecar, and stderr.
C1_FastPathAgreesWithFullComparison ==
    (op.kind = "compare" /\ op.raised = "")
        => \A k \in 1..Len(op.results) :
               (/\ BaselineLoads(golden, op.results[k].test_case)
                /\ FastPath(golden, load_manifest(golden), op.results[k]))
                   => op.comparisons[k].status = DetailedCompare(golden, op.results[k]).status

\* C2: after record_golden ran on the results of a run (the file system
\* accepting every write), compare_results on the same results returns status
\* match for every test case, whatever the golden directory held before.
C2_RecordThenCompareMatches ==
    (op.kind = "record" /\ op.fail = NoFailure)
        => /\ ~LoadManifestRaises(golden)
           /\ \A k \in 1..Len(op.results) :
                  compare_results(golden, op.results)[k].status = "match"

\* C6: a test case without baseline metadata file gets status new from
\* compare_results, whatever the manifest file holds.
C6_MissingBaselineIsNew ==
    op.kind = "compare"
        => \A k \in 1..Len(op.results) :
               golden[JsonPath(op.results[k].test_case)].kind = "absent"
                   => /\ op.raised = ""
                      /\ op.comparisons[k].status = "new"

\* the golden directory without the baseline metadata of tc
WithoutBaseline(g, tc) == [g EXCEPT ![JsonPath(tc)] = Absent]

\* C7: a test case whose baseline metadata does not load gets status error
\* with the failure message, and every other test case of the batch gets the
\* CompareResult it gets when that baseline is not there.
C7_CorruptBaselineIsIsolated ==
    op.kind = "compare"
        => \A k \in 1..Len(op.results) :
               LET tc == op.results[k].test_case
               IN (golden[JsonPath(tc)].kind # "absent" /\ LoadGoldenError(golden, tc) # "")
                      => /\ op.raised = ""
                         /\ op.comparisons[k].status = "error"
                         /\ op.comparisons[k].error_msg
                                = "Failed to load golden: " \o LoadGoldenError(golden, tc)
                         /\ \A j \in 1..Len(op.results) :
                                j # k => op.comparisons[j]
                                           = compare_results(WithoutBaseline(golden, tc),
                                                             op.results)[j]

\* C8: when the manifest file exists but does not load, compare_results
\* still returns one CompareResult per RunResult and reports the failure as
\* status error.
C8_CorruptManifestIsReported ==
    (op.kind = "compare" /\ LoadManifestRaises(golden))
        => /\ op.raised = ""
           /\ Len(op.comparisons) = Len(op.results)
           /\ \E k \in 1..Len(op.comparisons) : op.comparisons[k].status = "error"

\* C11: on the step on which the run_test_case call of a test case with a
\* fixture ends (by returning the result, by returning the timeout result or
\* by raising), no file exists at the path of its fixture temp file.
C11_FixtureFileRemovedOnExit ==
    [][\A i \in DOMAIN task :
           (/\ cases[i].fixture # None
            /\ task[i].pc \notin {"done", "raised"}
            /\ task'[i].pc \in {"done", "raised"})
               => tempFiles'[TempFilePath(cases[i])] = NoFile]_vars

\* a call with a fixture ended because the subprocess could not be started,
\* and its temp file is gone
C11_RaisedCallLeftNoFile ==
    \E i \in DOMAIN task :
        /\ cases[i].fixture # None
        /\ task[i].pc = "raised"
        /\ task[i].exc = "OSError"
        /\ tempFiles[TempFilePath(cases[i])] = NoFile

\* the manifest entry of result r exists and carries the hash of r's stdout
HashMatches(g, r) ==
    LET entry == find_entry(load_manifest(g), r.test_case.category, r.test_case.name)
    IN entry # None /\ entry[1].sha256 = compute_sha256(r.stdout)

\* C12: when the manifest entry's sha256 equals the hash of the actual
\* stdout but the actual exit code or stderr differs from the stored
\* baseline's, compare_results returns mismatch for that test case.
C12_HashMatchAloneIsNotMatch ==
    (op.kind = "compare" /\ op.raised = "")
        => \A k \in 1..Len(op.results) :
               LET r == op.results[k]
                   tc == r.test_case
               IN (/\ BaselineLoads(golden, tc)
                   /\ HashMatches(golden, r)
                   /\ \/ r.exit_code # ExpectedExit(golden, tc)
                      \/ r.stderr # ExpectedStderr(golden, tc))
                      => op.comparisons[k].status = "mismatch"

\* a compared result whose stdout is the recorded one (hash and sidecar) and
\* whose stderr differs from the baseline's
C12_HashEqualStderrDiffers ==
    /\ op.kind = "compare" /\ op.raised = ""
    /\ \E k \in 1..Len(op.results) :
           LET r == op.results[k]
               tc == r.test_case
           IN /\ BaselineLoads(golden, tc)
              /\ HashMatches(golden, r)
              /\ r.stdout = ExpectedStdout(golden, tc)
              /\ r.exit_code = ExpectedExit(golden, tc)
              /\ r.stderr # ExpectedStderr(golden, tc)
              /\ op.comparisons[k].status = "mismatch"

\* the statuses that occur in the argument of print_report
StatusesOf(rs) == {rs[k].status : k \in 1..Len(rs)}

\* C13: print_report returns 2 when status error occurs, otherwise 1 when
\* mismatch or new occurs, otherwise 0: a function of the set of statuses.
C13_ExitCodeFromStatusSet ==
    report.code # None
        => report.code[1] = IF "error" \in StatusesOf(report.results) THEN 2
                            ELSE IF StatusesOf(report.results) \cap {"mismatch", "new"} # {}
                                 THEN 1
                                 ELSE 0

\* a report in which a mismatch comes before an error got exit code 2
C13_ErrorDominatesMismatch ==
    /\ report.code = Some(2)
    /\ \E j, k \in 1..Len(report.results) :
           /\ j < k
           /\ report.results[j].status = "mismatch"
           /\ report.results[k].status = "error"

\* C16: after record_golden returned, for every result of the batch the
\* metadata file holds its exit code and stderr, the sidecar holds (and reads
\* back as) its stdout, and the manifest entry's sha256 is the hash of its
\* stdout, whatever the golden directory held before.
C16_RecordStoresExactlyTheResult ==
    (op.kind = "record" /\ op.raised = "")
        => /\ ~LoadManifestRaises(golden)
           /\ \A k \in 1..Len(op.results) :
                  LET r == op.results[k]
                      tc == r.test_case
                      entry == find_entry(load_manifest(golden), tc.category, tc.name)
                  IN /\ golden[JsonPath(tc)].kind = "json"
                     /\ golden[JsonPath(tc)].data.exit_code = Some(r.exit_code)
                     /\ golden[JsonPath(tc)].data.stderr = Some(r.stderr)
                     /\ golden[StdoutPath(tc)] = TextFile(r.stdout)
                     /\ ExpectedStdout(golden, tc) = r.stdout
                     /\ entry # None
                     /\ entry[1].sha256 = compute_sha256(r.stdout)
                     /\ entry[1].exit_code = r.exit_code

\* a batch of text/cat alone returned while the manifest lists text/cat
\* before data/cat: text/cat had an entry (and a baseline) before this
\* batch, and its result carries a stderr
C16_RerecordedWithStderr ==
    /\ op.kind = "record" /\ op.raised = ""
    /\ Len(op.results) = 1
    /\ op.results[1].test_case = Registry[1]
    /\ op.results[1].stderr # <<>>
    /\ golden[MANIFEST_FILENAME].kind = "json"
    /\ Len(golden[MANIFEST_FILENAME].data.entries) = 2
    /\ golden[MANIFEST_FILENAME].data.entries[1].category = "text"

\* C18: when the binary cannot be started, run_test_case returns a RunResult
\* that carries the failure (not exit code 0) and does not raise.
C18_UnstartableBinaryIsAResult ==
    \A i \in DOMAIN task :
        (~startable /\ Finished(i))
            => /\ task[i].pc = "done"
               /\ task[i].ret # None
               /\ task[i].ret[1].exit_code # 0

\* C14: a run of the command line that finds no registry file ends with
\* exit code 2, for every subcommand, without an uncaught exception and
\* without having run a test case.
C14_MissingRegistryExitsWith2 ==
    (cli.pc = "exited" /\ ~cli.registry)
        => /\ cli.code = Some(2)
           /\ cli.raised = ""
           /\ task = <<>>

\* C17: every step that changes a file of the golden directory is taken
\* after run_all returned: no run_test_case call is still executing and the
\* RunResult of every test case has been collected.
C17_WritesOnlyAfterCollection ==
    [][golden' # golden
           => /\ runPc = "returned"
              /\ Len(results) = Len(cases)
              /\ \A i \in DOMAIN task : task[i].pc = "done"]_vars

\* a record run with a worker pool over the three test cases ended with its
\* baselines and manifest written
C17_PoolRecordWrote ==
    /\ cli.pc = "exited"
    /\ cli.command = "record"
    /\ cli.code = Some(0)
    /\ workers > 1
    /\ Len(cases) = 3
    /\ golden[MANIFEST_FILENAME].kind = "json"
    /\ \A i \in 1..Len(cases) : golden[JsonPath(cases[i])].kind = "json"

\* C19: in a record run that meets a catastrophic failure (no registry
\* file, or a golden directory that refuses writes) no subprocess of a test
\* case is ever started.
C19_CatastrophicFailureAbortsBeforeAnyTest ==
    (cli.command \in {"record", "update"} /\ (~cli.registry \/ ~cli.writable))
        => \A i \in DOMAIN task : task[i].pc \in {"queued", "ready"}

C15_OneEntryPerIdentity ==
    golden[MANIFEST_FILENAME].kind = "json"
        => LET es == golden[MANIFEST_FILENAME].data.entries
           IN \A j, k \in 1..Len(es) :
                  (es[j].category = es[k].category /\ es[j].name = es[k].name) => j = k

\* a batch of one result returned and its entry stands in the manifest in
\* front of another test case's entry: it replaced the entry that was
\* there before instead of being appended
C15_EntryReplacedInPlace ==
    /\ op.kind = "record" /\ op.raised = ""
    /\ Len(op.results) = 1
    /\ golden[MANIFEST_FILENAME].kind = "json"
    /\ Len(golden[MANIFEST_FILENAME].data.entries) >= 2
    /\ golden[MANIFEST_FILENAME].data.entries[1].category = op.results[1].test_case.category
    /\ golden[MANIFEST_FILENAME].data.entries[1].name = op.results[1].test_case.name
    /\ golden[MANIFEST_FILENAME].data.entries[1].sha256 = compute_sha256(op.results[1].stdout)

\* C23: a manifest write is the last write of a record_golden call: no
\* baseline file is written after it and it happens at most once; a call that
\* returns has made it, after the sidecar and the metadata of every result.
C23_ManifestWrittenOnceAtTheEnd ==
    /\ \A j \in 1..Len(rec.writes) :
           rec.writes[j] = MANIFEST_FILENAME
               => j = Len(rec.writes) /\ rec.pc \in {"returned", "raised"}
    /\ rec.pc = "returned"
           => /\ rec.writes # <<>>
              /\ rec.writes[Len(rec.writes)] = MANIFEST_FILENAME
              /\ \A k \in 1..Len(rec.results) :
                     \E i, j \in 1..(Len(rec.writes) - 1) :
                         /\ rec.writes[i] = StdoutPath(rec.results[k].test_case)
                         /\ rec.writes[j] = JsonPath(rec.results[k].test_case)

\* a batch of two results returned after four baseline writes and one
\* manifest write
C23_TwoResultsFiveWrites ==
    /\ rec.pc = "returned"
    /\ Len(rec.results) = 2
    /\ Len(rec.writes) = 5

\* the built-in names of a list, in their order
BuiltInNames(names) == SelectSeq(names, LAMBDA n : n \in NORMALIZERS)

RECURSIVE TransformsInOrder(_, _)
\* the built-in transforms of a list of built-in names applied from the
\* first name to the last
TransformsInOrder(t, names) ==
    IF names = <<>> THEN t
    ELSE ApplyNormalizer(names[Len(names)],
                         TransformsInOrder(t, SubSeq(names, 1, Len(names) - 1)))

\* C21: normalize(text, names) is the CRLF-to-LF conversion of text followed
\* by the built-in transforms named in names, in the given order, unknown
\* names skipped; without a built-in name it is the conversion alone.
C21_NewlinesFirstThenNamedTransforms ==
    Len(normOut) >= 1
        => /\ normOut[1] = TransformsInOrder(ReplaceCRLF(normIn.text), BuiltInNames(normIn.names))
           /\ BuiltInNames(normIn.names) = <<>> => normOut[1] = ReplaceCRLF(normIn.text)

\* a text with a CRLF was normalized with an unknown name in front of a
\* built-in one, and both the conversion and the transform changed it
C21_UnknownThenBuiltIn ==
    /\ Len(normOut) >= 1
    /\ normIn.names = <<"future_normalizer", "strip_trailing_whitespace">>
    /\ \E i \in 1..(Len(normIn.text) - 1) : normIn.text[i] = CR /\ normIn.text[i + 1] = LF
    /\ ReplaceCRLF(normIn.text) # normIn.text
    /\ normOut[1] # ReplaceCRLF(normIn.text)

\* C22: when the baseline loads and the fast path does not apply, a
\* differing exit code gives a mismatch that reports the exit codes; with
\* equal exit codes a differing stdout gives a mismatch with the stdout diff;
\* with both equal a differing stderr gives a mismatch with the stderr diff;
\* with all three equal the status is match.
C22_ExitCodeThenStdoutThenStderr ==
    (op.kind = "compare" /\ op.raised = "")
        => \A k \in 1..Len(op.results) :
               LET r == op.results[k]
                   tc == r.test_case
                   c == op.comparisons[k]
               IN (/\ BaselineLoads(golden, tc)
                   /\ ~FastPath(golden, load_manifest(golden), r))
                      => IF r.exit_code # ExpectedExit(golden, tc)
                         THEN /\ c.status = "mismatch"
                              /\ c.diff = [kind |-> "exit_code",
                                           expected |-> ExpectedExit(golden, tc),
                                           actual |-> r.exit_code]
                         ELSE IF r.stdout # ExpectedStdout(golden, tc)
                         THEN /\ c.status = "mismatch"
                              /\ c.diff.kind = "unified"
                              /\ c.diff.label = golden_key(tc)
                              /\ c.diff.expected = ExpectedStdout(golden, tc)
                              /\ c.diff.actual = r.stdout
                         ELSE IF r.stderr # ExpectedStderr(golden, tc)
                         THEN /\ c.status = "mismatch"
                              /\ c.diff.kind = "unified"
                              /\ c.diff.label = golden_key(tc) \o " (stderr)"
                              /\ c.diff.expected = ExpectedStderr(golden, tc)
                              /\ c.diff.actual = r.stderr
                         ELSE c.status = "match" /\ c.diff = NoDiff

\* a compared result differs from its baseline in exit code and in stdout,
\* and the mismatch reports the exit code
C22_ExitCodeReportedFirst ==
    /\ op.kind = "compare" /\ op.raised = ""
    /\ \E k \in 1..Len(op.results) :
           LET r == op.results[k]
               tc == r.test_case
           IN /\ BaselineLoads(golden, tc)
              /\ r.exit_code # ExpectedExit(golden, tc)
              /\ r.stdout # ExpectedStdout(golden, tc)
              /\ op.comparisons[k].diff.kind = "exit_code"

\* C24: upsert_entry(e) on a manifest that has an entry of e's (category,
\* name) puts e at that entry's position and leaves the other entries and
\* their order as they were; on a manifest without such an entry it appends
\* e; afterwards find_entry(e.category, e.name) returns e.
C24_UpsertReplacesInPlace ==
    call.fn = "upsert_entry"
        => LET old == call.before.entries
               new == call.after.entries
               e == call.entry[1]
               S == {k \in 1..Len(old) : old[k].category = e.category /\ old[k].name = e.name}
           IN /\ IF S = {}
                 THEN new = Append(old, e)
                 ELSE /\ Len(new) = Len(old)
                      /\ \A k \in 1..Len(old) :
                             new[k] = IF k \in S /\ \A j \in S : k <= j THEN e ELSE old[k]
              /\ find_entry(call.after, e.category, e.name) = Some(e)
              /\ [call.after EXCEPT !.entries = old] = call.before

\* an upsert replaced the first of two entries by a different entry of the
\* same identity
C24_FirstOfTwoReplaced ==
    /\ call.fn = "upsert_entry"
    /\ Len(call.before.entries) = 2
    /\ call.before.entries[1].category = call.entry[1].category
    /\ call.before.entries[1].name = call.entry[1].name
    /\ call.before.entries[1] # call.entry[1]
    /\ call.after.entries[1] = call.entry[1]

-----------------------------------------------------------------------------
(* Baselines and manifest on disk *)

\* the test case of the registry with the identity of a manifest entry
CaseOfEntry(e) ==
    CHOOSE tc \in {Registry[i] : i \in 1..Len(Registry)} :
        tc.category = e.category /\ tc.name = e.name

\* C25: in every state reachable through record and compare runs, a record
\* batch that failed part-way included, every manifest entry on disk whose
\* baseline files exist carries the hash of the stdout sidecar on disk and
\* the exit code of the baseline metadata on disk.
C25_ManifestAgreesWithBaselines ==
    golden[MANIFEST_FILENAME].kind = "json"
        => \A k \in 1..Len(golden[MANIFEST_FILENAME].data.entries) :
               LET e == golden[MANIFEST_FILENAME].data.entries[k]
                   tc == CaseOfEntry(e)
               IN (/\ golden[StdoutPath(tc)].kind = "text"
                   /\ golden[JsonPath(tc)].kind = "json"
                   /\ golden[JsonPath(tc)].data.exit_code # None)
                      => /\ e.sha256 = compute_sha256(golden[StdoutPath(tc)].content)
                         /\ e.exit_code = golden[JsonPath(tc)].data.exit_code[1]

\* the identities of the test cases of a batch of results
IdentitiesOf(rs) == {golden_key(rs[k].test_case) : k \in 1..Len(rs)}

\* the entries of a manifest whose identity is not in ids, in manifest order
EntriesOutside(m, ids) ==
    SelectSeq(m.entries, LAMBDA e : (e.category \o "/" \o e.name) \notin ids)

-----------------------------------------------------------------------------
(* The list compare_results returns *)

\* C28: whenever compare_results returns, it returns one CompareResult per
\* RunResult, the k-th for the test case of the k-th RunResult, and every
\* status is one of match, mismatch, new, error.
C28_OneCompareResultPerRunResult ==
    (op.kind = "compare" /\ op.raised = "")
        => /\ Len(op.comparisons) = Len(op.results)
           /\ \A k \in 1..Len(op.comparisons) :
                  /\ k <= Len(op.results)
                  /\ op.comparisons[k].test_case = op.results[k].test_case
                  /\ op.comparisons[k].status \in {"match", "mismatch", "new", "error"}

\* a compare of two results has returned two different statuses
C28_TwoResultsTwoStatuses ==
    /\ op.kind = "compare" /\ op.raised = ""
    /\ Len(op.results) = 2
    /\ Len(op.comparisons) = 2
    /\ op.comparisons[1].status # op.comparisons[2].status

\* the golden directory without the baseline files and the manifest entries
\* of the test cases that are not in rs
WithoutStale(g, rs) ==
    [p \in GoldenPaths |->
        IF p = MANIFEST_FILENAME
        THEN IF g[p].kind = "json"
             THEN JsonFile([g[p].data EXCEPT
                               !.entries = SelectSeq(@, LAMBDA e : (e.category \o "/" \o e.name)
                                                                      \in IdentitiesOf(rs))])
             ELSE g[p]
        ELSE IF \E i \in 1..Len(Registry) :
                    /\ p \in {JsonPath(Registry[i]), StdoutPath(Registry[i])}
                    /\ golden_key(Registry[i]) \notin IdentitiesOf(rs)
             THEN Absent
             ELSE g[p]]

\* a baseline file or a manifest entry of a test case that is not in rs
HasStale(g, rs) ==
    \/ \E i \in 1..Len(Registry) :
           /\ golden_key(Registry[i]) \notin IdentitiesOf(rs)
           /\ g[JsonPath(Registry[i])].kind # "absent"
    \/ /\ g[MANIFEST_FILENAME].kind = "json"
       /\ EntriesOutside(g[MANIFEST_FILENAME].data, IdentitiesOf(rs)) # <<>>

\* C29: compare_results never produces the status missing; the baselines and
\* manifest entries of test cases that were not executed yield no
\* CompareResult and do not change the list returned, nor the exit code the
\* report derives from it.
C29_StaleEntriesAreIgnored ==
    op.kind = "compare"
        => /\ \A k \in 1..Len(op.comparisons) :
                  /\ op.comparisons[k].status # "missing"
                  /\ golden_key(op.comparisons[k].test_case) \in IdentitiesOf(op.results)
           /\ op.raised = ""
                  => /\ op.comparisons = compare_results(WithoutStale(golden, op.results),
                                                        op.results)
                     /\ print_report(op.comparisons)
                            = print_report(compare_results(WithoutStale(golden, op.results),
                                                           op.results))

\* a compare ends with exit code 0 while a baseline and a manifest entry of
\* a test case that was not executed exist
C29_ExitZeroBesideStaleEntry ==
    /\ op.kind = "compare" /\ op.raised = ""
    /\ print_report(op.comparisons) = 0
    /\ golden[MANIFEST_FILENAME].kind = "json"
    /\ EntriesOutside(golden[MANIFEST_FILENAME].data, IdentitiesOf(op.results)) # <<>>
    /\ HasStale(golden, op.results)

-----------------------------------------------------------------------------
(* Fixture files and the temp dir of a parallel run *)

\* C26: with workers > 1, while the subprocess of a test case with a fixture
\* runs, the file substituted for {file} exists and holds that test case's
\* fixture text, the subprocess has read that text, and no cleanup has failed
\* because another worker removed the file.
C26_FixtureIntactWhileRunning ==
    workers > 1
        => \A i \in DOMAIN task :
               /\ (task[i].pc = "running" /\ cases[i].fixture # None)
                      => /\ tempFiles[TempFilePath(cases[i])] = Some(cases[i].fixture[1])
                         /\ task[i].seen = Some(cases[i].fixture[1])
               /\ task[i].exc # "FileNotFoundError"

\* C30: however run_all is left, by returning or by an exception of a worker
\* or of the sequential loop, the temporary directory it created is removed.
C30_TempDirRemovedOnEveryExit ==
    runPc \in {"returned", "raised"} => tempDir = FALSE

=============================================================================
